---- MODULE Spec2Model ----
(***************************************************************************)
(* Resume API of the job-accessibility backend: the Mongoose Resume        *)
(* schema (backend/models/Resume.js), the resume routes and the PDF        *)
(* writer generatePDFContent (second half of backend/models/User.js).      *)
(*                                                                         *)
(* A JavaScript object is a function whose DOMAIN is the set of keys it    *)
(* carries: a missing key is an `undefined` property.  A stored document   *)
(* is the object Mongoose hydrates (defaults applied, unknown keys         *)
(* dropped).  The resume's _id is its position in db.                      *)
(***************************************************************************)
EXTENDS Integers, Sequences, FiniteSets, TLC

VARIABLES
    db,        \* the resumes collection: a sequence of stored documents
    recency,   \* ids ordered by updatedAt, most recent first
    pending,   \* generate requests suspended at `await model.generateContent`
    resp,      \* the last HTTP response sent
    env        \* process environment: NODE_ENV, time zone, locale

vars == <<db, recency, pending, resp, env>>

(***************************************************************************)
(* Bounds of the model.                                                    *)
(***************************************************************************)
MaxResumes == 1      \* documents the collection holds
MaxInFlight == 1     \* generate requests suspended at the provider call

Users == {"u1", "u2"}

(***************************************************************************)
(* JavaScript objects.                                                     *)
(***************************************************************************)
EmptyObj == [k \in {} |-> ""]
Has(o, k) == k \in DOMAIN o
Pick(o, S) == [k \in (DOMAIN o) \cap S |-> o[k]]
\* { ...a, ...b }: the later spread wins
Spread(a, b) == b @@ a
\* a string property used as a condition: undefined and "" are falsy
Truthy(o, k) == Has(o, k) /\ o[k] # ""
\* `${o.k}`: an undefined property interpolates as "undefined"
Interp(o, k) == IF Has(o, k) THEN o[k] ELSE "undefined"

Digits == <<"0", "1", "2", "3", "4", "5", "6", "7", "8", "9">>
RECURSIVE NumStr(_)
\* String(n) of a non-negative integer
NumStr(n) == IF n < 10 THEN Digits[n + 1]
             ELSE NumStr(n \div 10) \o Digits[(n % 10) + 1]

RECURSIVE Join(_, _)
\* Array.prototype.join
Join(s, sep) == IF Len(s) = 0 THEN ""
                ELSE IF Len(s) = 1 THEN s[1]
                ELSE s[1] \o sep \o Join(Tail(s), sep)

(***************************************************************************)
(* Dates.  A date-like input is an ISO calendar date (y-m-d, which         *)
(* JavaScript reads as UTC midnight) or a string that is no date.          *)
(***************************************************************************)
DateOf(y, m, d) == [iso |-> TRUE, y |-> y, m |-> m, d |-> d]
NotADate == [iso |-> FALSE, y |-> 0, m |-> 0, d |-> 0]
DateBefore(a, b) ==
    \/ a.y < b.y
    \/ a.y = b.y /\ a.m < b.m
    \/ a.y = b.y /\ a.m = b.m /\ a.d < b.d

(***************************************************************************)
(* The Resume schema.                                                      *)
(***************************************************************************)
Templates == {"modern", "classic", "creative", "minimal"}
DefaultTemplate == "modern"

TopLevelKeys == {"userId", "personalInfo", "experience", "education", "skills",
                 "projects", "certifications", "template", "aiGenerated",
                 "aiPrompt", "isActive"}

PersonalInfoKeys == {"fullName", "email", "phone", "address", "linkedin",
                     "website", "summary"}
PersonalInfoRequired == {"fullName", "email"}

SkillsKeys == {"technical", "soft", "languages"}

ExperienceSchema ==
    [name     |-> "experience",
     keys     |-> {"company", "position", "startDate", "endDate", "current",
                   "description", "achievements", "skills"},
     required |-> {"company", "position", "startDate"},
     dates    |-> {"startDate", "endDate"},
     defaults |-> [current |-> FALSE, achievements |-> <<>>, skills |-> <<>>]]

EducationSchema ==
    [name     |-> "education",
     keys     |-> {"institution", "degree", "field", "startDate", "endDate",
                   "gpa", "honors"},
     required |-> {"institution", "degree", "startDate"},
     dates    |-> {"startDate", "endDate"},
     defaults |-> [honors |-> <<>>]]

ProjectSchema ==
    [name     |-> "projects",
     keys     |-> {"name", "description", "technologies", "link", "startDate",
                   "endDate"},
     required |-> {"name"},
     dates    |-> {"startDate", "endDate"},
     defaults |-> [technologies |-> <<>>]]

CertificationSchema ==
    [name     |-> "certifications",
     keys     |-> {"name", "issuer", "date", "expiryDate", "link"},
     required |-> {"name"},
     dates    |-> {"date", "expiryDate"},
     defaults |-> EmptyObj]

(***************************************************************************)
(* Mongoose casting and validation of one document.                        *)
(***************************************************************************)
\* the keys of a raw sub-document that the schema knows and that cast
CastableKeys(s, raw) ==
    {k \in (DOMAIN raw) \cap s.keys : k \in s.dates => raw[k].iso}

\* the sub-document Mongoose builds: unknown keys dropped, defaults applied
CastSub(s, raw) == Pick(raw, CastableKeys(s, raw)) @@ s.defaults

\* `required: true`: the value is there, and a string is not empty
RequiredOk(o, k, isDate) ==
    Has(o, k) /\ (isDate \/ o[k] # "")

\* the paths of one sub-document that fail validation
SubErrors(s, raw, i) ==
    LET prefix == s.name \o "." \o NumStr(i - 1) \o "."
    IN  {prefix \o k : k \in {r \in s.required : ~RequiredOk(raw, r, r \in s.dates)}}
        \cup {prefix \o k : k \in {c \in (DOMAIN raw) \cap s.dates : ~raw[c].iso}}

ArrayErrors(s, data) ==
    IF Has(data, s.name)
    THEN UNION {SubErrors(s, data[s.name][i], i) : i \in 1..Len(data[s.name])}
    ELSE {}

CastArray(s, data) ==
    IF Has(data, s.name)
    THEN [i \in 1..Len(data[s.name]) |-> CastSub(s, data[s.name][i])]
    ELSE <<>>

\* JSON null, a value no string of a request equals
Null == "<null>"

\* the major versions of the Mongoose library the application may run on
MongooseMajors == {7, 8}

\* enum: ['modern', 'classic', 'creative', 'minimal'] on template.  The path
\* is not required: from Mongoose 8 on its enum validator accepts null,
\* before that it rejects it.
TemplateErrors(data) ==
    IF Has(data, "template")
       /\ data.template \notin Templates
       /\ ~(data.template = Null /\ env.mongoose >= 8)
    THEN {"template"} ELSE {}

PersonalInfoErrors(data) ==
    LET pi == IF Has(data, "personalInfo") THEN data.personalInfo ELSE EmptyObj
    IN  {"personalInfo." \o k : k \in {r \in PersonalInfoRequired : ~RequiredOk(pi, r, FALSE)}}

\* resume.save(): every failing path of the document, collected
ValidationErrors(data) ==
    (IF Has(data, "userId") THEN {} ELSE {"userId"})
    \cup PersonalInfoErrors(data)
    \cup ArrayErrors(ExperienceSchema, data)
    \cup ArrayErrors(EducationSchema, data)
    \cup ArrayErrors(ProjectSchema, data)
    \cup ArrayErrors(CertificationSchema, data)
    \cup TemplateErrors(data)

CastSkills(data) ==
    LET raw == IF Has(data, "skills") THEN data.skills ELSE EmptyObj
    IN  Pick(raw, SkillsKeys) @@ [technical |-> <<>>, soft |-> <<>>, languages |-> <<>>]

\* new Resume(data): strict mode drops unknown keys, defaults are applied
NewResume(data) ==
    Pick(data, {"aiPrompt"}) @@
    [userId         |-> data.userId,
     personalInfo   |-> IF Has(data, "personalInfo")
                        THEN Pick(data.personalInfo, PersonalInfoKeys)
                        ELSE EmptyObj,
     experience     |-> CastArray(ExperienceSchema, data),
     education      |-> CastArray(EducationSchema, data),
     skills         |-> CastSkills(data),
     projects       |-> CastArray(ProjectSchema, data),
     certifications |-> CastArray(CertificationSchema, data),
     template       |-> IF Has(data, "template") THEN data.template ELSE DefaultTemplate,
     aiGenerated    |-> IF Has(data, "aiGenerated") THEN data.aiGenerated ELSE FALSE,
     isActive       |-> IF Has(data, "isActive") THEN data.isActive ELSE TRUE]

(***************************************************************************)
(* The environment of the process.  tz is the sign of the local time       *)
(* zone's offset from UTC (-1 west, 0 UTC, 1 east); mongoose is the major  *)
(* version of the installed library.                                       *)
(***************************************************************************)
NodeEnvs == {"development", "production"}
TimeZones == {-1, 0, 1}
Locales == {"en-US", "en-GB"}

DaysIn == <<31, 28, 31, 30, 31, 30, 31, 31, 30, 31, 30, 31>>

\* the local calendar date of a UTC-midnight instant
LocalDate(d, tz) ==
    IF tz >= 0 THEN d
    ELSE IF d.d > 1 THEN [d EXCEPT !.d = d.d - 1]
    ELSE IF d.m > 1 THEN [d EXCEPT !.m = d.m - 1, !.d = DaysIn[d.m - 1]]
    ELSE [d EXCEPT !.y = d.y - 1, !.m = 12, !.d = 31]

\* Date.prototype.getFullYear: the year in local time
GetFullYear(d, tz) == LocalDate(d, tz).y

\* `${new Date(o.k).getFullYear()}`: new Date(undefined) is an Invalid Date
YearText(o, k, tz) ==
    IF Has(o, k) THEN NumStr(GetFullYear(o[k], tz)) ELSE "NaN"

Pad2(n) == IF n < 10 THEN "0" \o NumStr(n) ELSE NumStr(n)

\* Date.prototype.toLocaleDateString() in the process's locale
ToLocaleDateString(d, e) ==
    LET l == LocalDate(d, e.tz)
    IN  IF e.locale = "en-US"
        THEN NumStr(l.m) \o "/" \o NumStr(l.d) \o "/" \o NumStr(l.y)
        ELSE Pad2(l.d) \o "/" \o Pad2(l.m) \o "/" \o NumStr(l.y)

(***************************************************************************)
(* generatePDFContent.  The PDFDocument starts in a font size and a font;   *)
(* the function is the sequence of calls it makes on the document, and the *)
(* PDF is the text lines those calls write, each with the doc.text call    *)
(* that wrote it (tag) and the font state it was written in.               *)
(***************************************************************************)
NewPDFDocument == [size |-> 12, font |-> "Helvetica"]
\* the calls made on doc, in program order; a call is one record
Call(c, tag, size, font, text) ==
    <<[call |-> c, tag |-> tag, size |-> size, font |-> font, text |-> text]>>
FontSize(n) == Call("fontSize", "", n, "", "")
Font(f) == Call("font", "", 0, f, "")
Text(tag, s) == Call("text", tag, 0, "", s)
\* doc.text(o.k): pdfkit writes an undefined argument as the empty string
TextArg(o, k) == IF Has(o, k) THEN o[k] ELSE ""

\* the index of the last call `c` before call i, 0 if there is none
LastCall(calls, c, i) ==
    LET before == {j \in 1..(i - 1) : calls[j].call = c}
    IN  IF before = {} THEN 0
        ELSE CHOOSE j \in before : \A k \in before : k <= j

\* the text lines a sequence of calls writes, each in the size and the font
\* the document has when it is written
Written(calls) ==
    LET at == SelectSeq([i \in 1..Len(calls) |-> i],
                        LAMBDA i : calls[i].call = "text")
    IN  [n \in 1..Len(at) |->
            LET i == at[n]
                s == LastCall(calls, "fontSize", i)
                f == LastCall(calls, "font", i)
            IN  [tag |-> calls[i].tag, text |-> calls[i].text,
                 size |-> IF s = 0 THEN NewPDFDocument.size ELSE calls[s].size,
                 font |-> IF f = 0 THEN NewPDFDocument.font ELSE calls[f].font]]

RECURSIVE Flatten(_)
Flatten(ss) == IF Len(ss) = 0 THEN <<>> ELSE Head(ss) \o Flatten(Tail(ss))

Heading(title) == FontSize(14) \o Font("Helvetica-Bold") \o Text("heading", title)

RenderAchievements(items) ==
    Flatten([i \in 1..Len(items) |-> Text("achievement", "* " \o items[i])])

\* mutant: an endDate that is there is shown, current or not
ExperienceDateLineEndWins(exp, tz) ==
    YearText(exp, "startDate", tz) \o " - " \o
    (IF exp.current /\ ~Has(exp, "endDate") THEN "Present"
     ELSE YearText(exp, "endDate", tz))

\* the date line of one experience entry
ExperienceDateLine(exp, tz) ==
    YearText(exp, "startDate", tz) \o " - " \o
    (IF exp.current THEN "Present" ELSE YearText(exp, "endDate", tz))

RenderExperienceEntry(exp, e) ==
    FontSize(12) \o Font("Helvetica-Bold")
    \o Text("expTitle", Interp(exp, "position") \o " at " \o Interp(exp, "company"))
    \o FontSize(10) \o Font("Helvetica")
    \o Text("expDates", ExperienceDateLine(exp, e.tz))
    \o (IF Truthy(exp, "description")
        THEN Text("expDescription", exp.description) ELSE <<>>)
    \o (IF Len(exp.achievements) > 0
        THEN RenderAchievements(exp.achievements) ELSE <<>>)

RenderEducationEntry(edu, e) ==
    FontSize(12) \o Font("Helvetica-Bold")
    \o Text("eduTitle", Interp(edu, "degree") \o " in " \o Interp(edu, "field"))
    \o FontSize(10) \o Font("Helvetica")
    \o Text("eduInstitution", TextArg(edu, "institution"))
    \o (IF Truthy(edu, "gpa") THEN Text("eduGpa", "GPA: " \o edu.gpa) ELSE <<>>)

RenderProjectEntry(project, e) ==
    FontSize(12) \o Font("Helvetica-Bold")
    \o Text("projectName", TextArg(project, "name"))
    \o (IF Truthy(project, "description")
        THEN FontSize(10) \o Font("Helvetica")
             \o Text("projectDescription", project.description)
        ELSE <<>>)
    \o (IF Len(project.technologies) > 0
        THEN Text("projectTechnologies",
                  "Technologies: " \o Join(project.technologies, ", "))
        ELSE <<>>)

RenderCertificationEntry(cert, e) ==
    FontSize(12) \o Font("Helvetica-Bold")
    \o Text("certName", TextArg(cert, "name"))
    \o FontSize(10) \o Font("Helvetica")
    \o Text("certIssuer", "Issued by: " \o Interp(cert, "issuer"))
    \o (IF Has(cert, "date")
        THEN Text("certDate", "Date: " \o ToLocaleDateString(cert.date, e))
        ELSE <<>>)

\* mutant: the entries visited last first
ForEachLastFirst(kind, items, e) ==
    Flatten([i \in 1..Len(items) |->
        LET item == items[Len(items) + 1 - i]
        IN  CASE kind = "experience" -> RenderExperienceEntry(item, e)
              [] kind = "education" -> RenderEducationEntry(item, e)
              [] kind = "projects" -> RenderProjectEntry(item, e)
              [] OTHER -> RenderCertificationEntry(item, e)])

\* array.forEach(entry => ...), in index order
ForEach(kind, items, e) ==
    Flatten([i \in 1..Len(items) |->
        CASE kind = "experience" -> RenderExperienceEntry(items[i], e)
          [] kind = "education" -> RenderEducationEntry(items[i], e)
          [] kind = "projects" -> RenderProjectEntry(items[i], e)
          [] OTHER -> RenderCertificationEntry(items[i], e)])

RenderHeader(personalInfo) ==
    FontSize(24) \o Font("Helvetica-Bold")
    \o Text("name", TextArg(personalInfo, "fullName"))
    \o FontSize(12) \o Font("Helvetica")
    \o Text("email", TextArg(personalInfo, "email"))
    \o (IF Truthy(personalInfo, "phone")
        THEN Text("phone", personalInfo.phone) ELSE <<>>)

RenderSummary(personalInfo) ==
    IF Truthy(personalInfo, "summary")
    THEN Heading("Professional Summary") \o FontSize(10) \o Font("Helvetica")
         \o Text("summary", personalInfo.summary)
    ELSE <<>>

RenderSection(title, kind, items, e) ==
    IF Len(items) > 0 THEN Heading(title) \o ForEach(kind, items, e) ELSE <<>>

\* `if (skills)`: the nested skills object of a hydrated document
SkillsPresent(resume) == Has(resume, "skills")

RenderSkills(resume) ==
    IF SkillsPresent(resume)
    THEN LET skills == resume.skills
         IN  Heading("Skills")
             \o (IF Len(skills.technical) > 0
                 THEN FontSize(10) \o Font("Helvetica")
                      \o Text("skillsTechnical",
                              "Technical: " \o Join(skills.technical, ", "))
                 ELSE <<>>)
             \o (IF Len(skills.soft) > 0
                 THEN Text("skillsSoft", "Soft Skills: " \o Join(skills.soft, ", "))
                 ELSE <<>>)
             \o (IF Len(skills.languages) > 0
                 THEN Text("skillsLanguages",
                           "Languages: " \o Join(skills.languages, ", "))
                 ELSE <<>>)
    ELSE <<>>

\* the calls generatePDFContent makes on doc for a stored resume
PDFCalls(resume, e) ==
    RenderHeader(resume.personalInfo)
    \o RenderSummary(resume.personalInfo)
    \o RenderSection("Professional Experience", "experience", resume.experience, e)
    \o RenderSection("Education", "education", resume.education, e)
    \o RenderSkills(resume)
    \o RenderSection("Projects", "projects", resume.projects, e)
    \o RenderSection("Certifications", "certifications", resume.certifications, e)

\* the lines generatePDFContent writes for a stored resume
GeneratePDFContent(resume, e) == Written(PDFCalls(resume, e))

(***************************************************************************)
(* HTTP responses.  fields is the set of schema paths the response body    *)
(* names; data the documents it returns; lines the PDF's text; req the     *)
(* request that the response answers.                                      *)
(***************************************************************************)
Response(op, u, id, status, message, req) ==
    [op |-> op, user |-> u, id |-> id, status |-> status, message |-> message,
     error |-> "", fields |-> {}, data |-> <<>>, lines |-> <<>>,
     filename |-> "", req |-> req]

NoResponse == Response("none", "", 0, 0, "", EmptyObj)

NotFound(op, u, id, req) == Response(op, u, id, 404, "Resume not found", req)

\* an :id that is no ObjectId makes the query throw a CastError
MalformedId == 0

\* timestamps: the written document becomes the most recently updated
Touch(id) == <<id>> \o SelectSeq(recency, LAMBDA j : j # id)

(***************************************************************************)
(* POST /  (create)                                                        *)
(***************************************************************************)
\* { ...req.body, userId: req.user.id }
CreateData(u, body) == Spread(body, [userId |-> u])

Create(u, body, cap) ==
    LET resumeData == CreateData(u, body)
        errs == ValidationErrors(resumeData)
        id == Len(db) + 1
    IN  IF errs = {}
        THEN /\ Len(db) < cap
             /\ db' = Append(db, NewResume(resumeData))
             /\ recency' = Touch(id)
             /\ resp' = [Response("create", u, id, 201, "", [body |-> body]) EXCEPT
                            !.data = <<NewResume(resumeData)>>]
             /\ UNCHANGED <<pending, env>>
        ELSE /\ resp' = [Response("create", u, 0, 400, "Resume validation failed",
                                  [body |-> body])
                            EXCEPT !.fields = errs]
             /\ UNCHANGED <<db, recency, pending, env>>

(***************************************************************************)
(* GET /  and  GET /:id                                                    *)
(***************************************************************************)
\* Resume.find({ userId, isActive: true }).sort({ updatedAt: -1 })
FindActiveOf(u) ==
    LET ids == SelectSeq(recency, LAMBDA j : db[j].userId = u /\ db[j].isActive)
    IN  [i \in 1..Len(ids) |-> db[ids[i]]]

List(u) ==
    /\ resp' = [Response("list", u, 0, 200, "", EmptyObj) EXCEPT !.data = FindActiveOf(u)]
    /\ UNCHANGED <<db, recency, pending, env>>

\* mutant: the filter without its userId condition
MatchesActiveAnyOwner(u, id) ==
    /\ id \in 1..Len(db)
    /\ db[id].isActive

\* mutant: the filter without its isActive condition
MatchesActiveOrDeleted(u, id) ==
    /\ id \in 1..Len(db)
    /\ db[id].userId = u

\* the filter { _id: id, userId: u, isActive: true }
MatchesActive(u, id) ==
    /\ id \in 1..Len(db)
    /\ db[id].userId = u
    /\ db[id].isActive

\* the filter { _id: id, userId: u } of the soft delete
MatchesOwned(u, id) ==
    /\ id \in 1..Len(db)
    /\ db[id].userId = u

Get(u, id) ==
    /\ resp' = IF id = MalformedId
               THEN Response("get", u, id, 500, "Cast to ObjectId failed", EmptyObj)
               ELSE IF MatchesActive(u, id)
               THEN [Response("get", u, id, 200, "", EmptyObj) EXCEPT !.data = <<db[id]>>]
               ELSE NotFound("get", u, id, EmptyObj)
    /\ UNCHANGED <<db, recency, pending, env>>

(***************************************************************************)
(* PUT /:id  (findOneAndUpdate with runValidators)                         *)
(***************************************************************************)
\* update validators run on the paths the update sets
UpdateErrors(body) ==
    LET set == Pick(body, TopLevelKeys)
        pi == IF Has(set, "personalInfo") THEN set.personalInfo ELSE EmptyObj
    IN  {"personalInfo." \o k :
            k \in {r \in PersonalInfoRequired \cap DOMAIN pi : pi[r] = ""}}
        \cup ArrayErrors(ExperienceSchema, set)
        \cup ArrayErrors(EducationSchema, set)
        \cup ArrayErrors(ProjectSchema, set)
        \cup ArrayErrors(CertificationSchema, set)
        \cup TemplateErrors(set)

\* a value of the update, cast by the schema
CastPath(body, k) ==
    CASE k = "personalInfo" -> Pick(body.personalInfo, PersonalInfoKeys)
      [] k = "experience" -> CastArray(ExperienceSchema, body)
      [] k = "education" -> CastArray(EducationSchema, body)
      [] k = "projects" -> CastArray(ProjectSchema, body)
      [] k = "certifications" -> CastArray(CertificationSchema, body)
      [] k = "skills" -> CastSkills(body)
      [] OTHER -> body[k]

\* { $set: body }: each path of the body replaces the stored one
ApplyUpdate(doc, body) ==
    [k \in (DOMAIN body) \cap TopLevelKeys |-> CastPath(body, k)] @@ doc

Update(u, id, body) ==
    LET errs == UpdateErrors(body)
        req == [body |-> body]
    IN  IF id = MalformedId
        THEN /\ resp' = Response("update", u, id, 400, "Cast to ObjectId failed", req)
             /\ UNCHANGED <<db, recency, pending, env>>
        ELSE IF errs # {}
        THEN /\ resp' = [Response("update", u, id, 400, "Validation failed", req)
                            EXCEPT !.fields = errs]
             /\ UNCHANGED <<db, recency, pending, env>>
        ELSE IF MatchesActive(u, id)
        THEN /\ db' = [db EXCEPT ![id] = ApplyUpdate(@, body)]
             /\ recency' = Touch(id)
             /\ resp' = [Response("update", u, id, 200, "", req) EXCEPT
                            !.data = <<ApplyUpdate(db[id], body)>>]
             /\ UNCHANGED <<pending, env>>
        ELSE /\ resp' = NotFound("update", u, id, req)
             /\ UNCHANGED <<db, recency, pending, env>>

(***************************************************************************)
(* DELETE /:id  (soft delete)                                              *)
(***************************************************************************)
Delete(u, id) ==
    IF id = MalformedId
    THEN /\ resp' = Response("delete", u, id, 500, "Cast to ObjectId failed", EmptyObj)
         /\ UNCHANGED <<db, recency, pending, env>>
    ELSE IF MatchesOwned(u, id)
    THEN /\ db' = [db EXCEPT ![id].isActive = FALSE]
         /\ recency' = Touch(id)
         /\ resp' = Response("delete", u, id, 200, "Resume deleted successfully", EmptyObj)
         /\ UNCHANGED <<pending, env>>
    ELSE /\ resp' = NotFound("delete", u, id, EmptyObj)
         /\ UNCHANGED <<db, recency, pending, env>>

(***************************************************************************)
(* GET /:id/pdf                                                            *)
(***************************************************************************)
Pdf(u, id) ==
    /\ resp' = IF id = MalformedId
               THEN Response("pdf", u, id, 500, "Cast to ObjectId failed", EmptyObj)
               ELSE IF MatchesActive(u, id)
               THEN [Response("pdf", u, id, 200, "", EmptyObj) EXCEPT
                        !.filename = Interp(db[id].personalInfo, "fullName")
                                        \o "_Resume.pdf",
                        !.lines = GeneratePDFContent(db[id], env)]
               ELSE NotFound("pdf", u, id, EmptyObj)
    /\ UNCHANGED <<db, recency, pending, env>>

\* mutant: what the document holds when a call throws is sent as the PDF
PdfFailureResponsePartial(u, id, k) ==
    [Response("pdf", u, id, 200, "", [thrownAt |-> k]) EXCEPT
        !.filename = Interp(db[id].personalInfo, "fullName") \o "_Resume.pdf",
        !.lines = Written(SubSeq(PDFCalls(db[id], env), 1, k - 1))]

\* the catch of the handler.  doc.pipe(res) sends nothing before the handler
\* yields: what the document holds is still buffered when the catch runs,
\* and res.status(500).json is the whole response.
PdfFailureResponse(u, id, k) ==
    Response("pdf", u, id, 500, "render error", [thrownAt |-> k])

\* the k-th call that generatePDFContent makes on doc throws
PdfThrows(u, id, k) ==
    /\ id # MalformedId
    /\ MatchesActive(u, id)
    /\ k \in 1..Len(PDFCalls(db[id], env))
    /\ resp' = PdfFailureResponse(u, id, k)
    /\ UNCHANGED <<db, recency, pending, env>>

(***************************************************************************)
(* POST /generate.  The handler suspends at the provider call: the part    *)
(* before the await is GenerateRequest, the part after it GenerateResponse *)
(* (the provider answered) or GenerateProviderError (the call threw).      *)
(***************************************************************************)
\* mutant: `prompt === undefined`, which lets the empty string through
PromptMissingOnlyUndefined(body) == ~Has(body, "prompt")

\* `!prompt`
PromptMissing(body) == ~Truthy(body, "prompt")

\* const { prompt, template = 'modern' } = req.body
Destructure(body) ==
    [prompt |-> body.prompt,
     template |-> IF Has(body, "template") THEN body.template ELSE DefaultTemplate]

\* the handler up to the await, with at most cap provider calls in flight
GenerateRequestUpTo(u, body, cap) ==
    IF PromptMissing(body)
    THEN /\ resp' = Response("generate", u, 0, 400,
                             "Prompt is required for AI generation", [body |-> body])
         /\ UNCHANGED <<db, recency, pending, env>>
    ELSE LET call == [user |-> u] @@ Destructure(body)
         IN  /\ Cardinality(pending) < cap
             /\ call \notin pending
             /\ pending' = pending \cup {call}
             /\ UNCHANGED <<db, recency, resp, env>>

GenerateRequest(u, body) == GenerateRequestUpTo(u, body, MaxInFlight)

\* mutant: a parser that first strips a Markdown code fence
JSONParseLenient(content) ==
    IF content.wrap \in {"none", "fence"}
    THEN [ok |-> TRUE, value |-> content.value]
    ELSE [ok |-> FALSE, value |-> EmptyObj]

\* JSON.parse(content): text that is not exactly one JSON value throws
JSONParse(content) ==
    IF content.wrap = "none"
    THEN [ok |-> TRUE, value |-> content.value]
    ELSE [ok |-> FALSE, value |-> EmptyObj]

\* mutant: the provider's object spread last, so that its keys win
GenerateDataProviderWins(call, aiGeneratedData) ==
    Spread([userId |-> call.user, template |-> call.template,
            aiGenerated |-> TRUE, aiPrompt |-> call.prompt],
           aiGeneratedData)

\* mutant: prompt and template kept in one variable shared by all requests
GenerateDataShared(call, aiGeneratedData) ==
    LET last == CHOOSE c \in pending : TRUE
    IN  Spread(aiGeneratedData,
               [userId |-> call.user, template |-> last.template,
                aiGenerated |-> TRUE, aiPrompt |-> last.prompt])

\* { ...aiGeneratedData, userId, template, aiGenerated: true, aiPrompt: prompt }
GenerateData(call, aiGeneratedData) ==
    Spread(aiGeneratedData,
           [userId |-> call.user, template |-> call.template,
            aiGenerated |-> TRUE, aiPrompt |-> call.prompt])

\* the body of the outer catch: the error's message only in development
GenerationFailed(call, message, fields, req) ==
    [Response("generate", call.user, 0, 500, "Failed to generate AI resume", req) EXCEPT
        !.error = IF env.nodeEnv = "development" THEN message
                  ELSE "Internal server error",
        !.fields = IF env.nodeEnv = "development" THEN fields ELSE {}]

GenerateResponse(call, content, cap) ==
    LET parsed == JSONParse(content)
        resumeData == GenerateData(call, parsed.value)
        errs == ValidationErrors(resumeData)
        id == Len(db) + 1
        req == [prompt |-> call.prompt, template |-> call.template,
                content |-> content]
    IN  /\ call \in pending
        /\ pending' = pending \ {call}
        /\ IF ~parsed.ok
           THEN /\ resp' = Response("generate", call.user, 0, 500,
                                    "Failed to parse AI response", req)
                /\ UNCHANGED <<db, recency, env>>
           ELSE IF errs # {}
           THEN /\ resp' = GenerationFailed(call, "Resume validation failed", errs, req)
                /\ UNCHANGED <<db, recency, env>>
           ELSE /\ Len(db) < cap
                /\ db' = Append(db, NewResume(resumeData))
                /\ recency' = Touch(id)
                /\ resp' = [Response("generate", call.user, id, 201,
                                     "AI-generated resume created successfully", req)
                               EXCEPT !.data = <<NewResume(resumeData)>>]
                /\ UNCHANGED env

GenerateProviderError(call) ==
    /\ call \in pending
    /\ pending' = pending \ {call}
    /\ resp' = GenerationFailed(call, "provider request failed", {},
                                [prompt |-> call.prompt, template |-> call.template])
    /\ UNCHANGED <<db, recency, env>>

(***************************************************************************)
(* Request bodies and provider answers the model draws from.               *)
(***************************************************************************)
PersonalComplete == [fullName |-> "Jane Doe", email |-> "jane@example.com"]
PersonalNoName == [email |-> "jane@example.com"]
PersonalFull ==
    [fullName |-> "Jane Doe", email |-> "jane@example.com",
     phone |-> "555-0100", summary |-> "Frontend engineer"]

ExpCurrent ==
    [company |-> "Acme", position |-> "Frontend Engineer",
     startDate |-> DateOf(2021, 1, 1), current |-> TRUE]
ExpCurrentWithEnd ==
    [company |-> "Hooli", position |-> "Team Lead",
     startDate |-> DateOf(2019, 2, 1), endDate |-> DateOf(2022, 6, 30),
     current |-> TRUE, description |-> "Led a 2-person team"]
ExpPast ==
    [company |-> "Globex", position |-> "Developer",
     startDate |-> DateOf(2018, 3, 1), endDate |-> DateOf(2020, 12, 31),
     current |-> FALSE, achievements |-> <<"Shipped v2", "Cut costs">>]
\* current = false and an endDate before the startDate
ExpBackwards ==
    [company |-> "Initech", position |-> "Analyst",
     startDate |-> DateOf(2021, 5, 1), endDate |-> DateOf(2019, 5, 1),
     current |-> FALSE]
\* current left to its default (false) and no endDate
ExpOpenEnded ==
    [company |-> "Umbrella", position |-> "Intern",
     startDate |-> DateOf(2021, 5, 1)]

Plain == [personalInfo |-> PersonalComplete]

\* the bodies that are `body` with key k set to a value of vs
With(body, k, vs) == {Spread(body, k :> v) : v \in vs}

Prompts == {"Frontend engineer, 3 years", "Nurse, 10 years"}

\* the raw text: JSON alone, or JSON in a code fence, cut short, or prose
TextsOf(values) ==
    {[wrap |-> "none", value |-> v] : v \in values}
    \cup {[wrap |-> w, value |-> Plain] : w \in {"fence", "truncated", "prose"}}

IdInputs == 0..MaxResumes

Envs == [nodeEnv : NodeEnvs, tz : TimeZones, locale : Locales, mongoose : MongooseMajors]

(***************************************************************************)
(* Spec: the whole API, on small request bodies, in production, UTC and    *)
(* en-US, on either library version.                                       *)
(***************************************************************************)
ApiCreateBodies ==
    {Plain, [personalInfo |-> PersonalNoName]}
    \cup With(Plain, "template", {"bogus", Null})
    \cup With(Plain, "userId", {"u2"})

\* an update of the phone number alone
PhoneOnly == [personalInfo |-> [phone |-> "555-0199"]]

ApiUpdateBodies ==
    With(EmptyObj, "template", {"minimal", "bogus", Null})
    \cup With(EmptyObj, "userId", Users)
    \cup {PhoneOnly}

ApiGenerateBodies ==
    {EmptyObj} \cup
    {[prompt |-> "Frontend engineer, 3 years"],
     [prompt |-> "Frontend engineer, 3 years", template |-> "bogus"]}

ApiProviderTexts == TextsOf({Plain})

InitIn(envs) ==
    /\ db = <<>>
    /\ recency = <<>>
    /\ pending = {}
    /\ resp = NoResponse
    /\ env \in envs

Init ==
    InitIn({e \in Envs : e.nodeEnv = "production" /\ e.tz = 0 /\ e.locale = "en-US"})

CreateReq == \E u \in Users, body \in ApiCreateBodies : Create(u, body, MaxResumes)
ListReq == \E u \in Users : List(u)
GetReq == \E u \in Users, id \in IdInputs : Get(u, id)
UpdateReq == \E u \in Users, id \in IdInputs, body \in ApiUpdateBodies : Update(u, id, body)
DeleteReq == \E u \in Users, id \in IdInputs : Delete(u, id)
PdfReq == \E u \in Users, id \in IdInputs : Pdf(u, id)
GenerateReq == \E u \in Users, body \in ApiGenerateBodies : GenerateRequest(u, body)
GenerateResp ==
    \E call \in pending, content \in ApiProviderTexts :
        GenerateResponse(call, content, MaxResumes)
GenerateErr == \E call \in pending : GenerateProviderError(call)

Next ==
    \/ CreateReq
    \/ ListReq
    \/ GetReq
    \/ UpdateReq
    \/ DeleteReq
    \/ PdfReq
    \/ GenerateReq
    \/ GenerateResp
    \/ GenerateErr

Spec == Init /\ [][Next]_vars

(***************************************************************************)
(* GenSpec: construction of resumes, by create and by generate, over the   *)
(* prompts, templates and provider answers, in both NODE_ENVs.             *)
(***************************************************************************)
\* a required string that is empty, and one that is only spaces
PersonalEmptyName == [fullName |-> "", email |-> "jane@example.com"]
PersonalBlankName == [fullName |-> "   ", email |-> "jane@example.com"]
ExpBlankPosition ==
    [company |-> "Acme", position |-> " ", startDate |-> DateOf(2021, 1, 1)]

GenCreateBodies ==
    {Plain, [personalInfo |-> PersonalNoName], [personalInfo |-> PersonalEmptyName],
     [personalInfo |-> PersonalBlankName]}
    \cup With(Plain, "experience", {<<ExpBlankPosition>>})
    \cup With(Plain, "experience", {<<ExpBackwards>>, <<ExpOpenEnded>>, <<ExpPast>>})

GenGenerateBodies ==
    {EmptyObj, [prompt |-> ""], [template |-> "classic"],
     [prompt |-> "Frontend engineer, 3 years"],
     [prompt |-> "Nurse, 10 years", template |-> "classic"],
     [prompt |-> "Frontend engineer, 3 years", template |-> "bogus"]}

\* what the provider's JSON may hold, the keys the handler sets included
ProviderValues ==
    {Plain, [personalInfo |-> PersonalNoName], EmptyObj,
     [personalInfo |-> PersonalBlankName],
     [personalInfo |-> PersonalNoName, experience |-> <<[company |-> "Acme"]>>]}
    \cup With(Plain, "experience", {<<ExpBackwards>>, <<ExpOpenEnded>>})
    \cup {Spread(Plain, [userId |-> u, template |-> "minimal",
                         aiGenerated |-> FALSE, aiPrompt |-> "injected"]) :
             u \in Users}

GenInit == InitIn({e \in Envs : e.tz = 0 /\ e.locale = "en-US" /\ e.mongoose = 8})

GenCreateReq == \E u \in Users, body \in GenCreateBodies : Create(u, body, MaxResumes)
GenGenerateReq == \E u \in Users, body \in GenGenerateBodies : GenerateRequest(u, body)
GenGenerateResp ==
    \E call \in pending, content \in TextsOf(ProviderValues) :
        GenerateResponse(call, content, MaxResumes)

GenNext ==
    \/ GenCreateReq
    \/ GenGenerateReq
    \/ GenGenerateResp
    \/ GenerateErr

GenSpec == GenInit /\ [][GenNext]_vars

(***************************************************************************)
(* RenderSpec: resumes of every section shape are created, updated and     *)
(* rendered to PDF, in every time zone and locale.                         *)
(***************************************************************************)
EduFull ==
    [institution |-> "MIT", degree |-> "BSc", field |-> "Computer Science",
     startDate |-> DateOf(2014, 9, 1), gpa |-> "3.9"]
\* an education entry without the optional field
EduNoField ==
    [institution |-> "Open University", degree |-> "MSc",
     startDate |-> DateOf(2016, 9, 1)]

ProjTracker ==
    [name |-> "Tracker", description |-> "Issue tracker",
     technologies |-> <<"React", "Node">>]
ProjParser == [name |-> "Parser"]

CertCloud ==
    [name |-> "Cloud Architect", issuer |-> "Amazon", date |-> DateOf(2022, 1, 1)]
\* a certification without the optional issuer
CertNoIssuer == [name |-> "Kubernetes Administrator"]

SkillsAll ==
    [technical |-> <<"React", "TypeScript">>, soft |-> <<"Teamwork">>,
     languages |-> <<"English", "Hindi">>]

Full ==
    [personalInfo |-> PersonalFull,
     experience |-> <<ExpCurrent, ExpPast>>,
     education |-> <<EduFull, EduNoField>>,
     skills |-> SkillsAll,
     projects |-> <<ProjTracker, ProjParser>>,
     certifications |-> <<CertCloud, CertNoIssuer>>]

Reverse(s) == [i \in 1..Len(s) |-> s[Len(s) + 1 - i]]

\* Full with every array-valued section supplied in the opposite order
FullReversed ==
    [personalInfo |-> PersonalFull,
     experience |-> Reverse(Full.experience),
     education |-> Reverse(Full.education),
     skills |-> SkillsAll,
     projects |-> Reverse(Full.projects),
     certifications |-> Reverse(Full.certifications)]

RenderCreateBodies ==
    {Plain, [personalInfo |-> PersonalFull], Full, FullReversed}
    \cup With(Plain, "experience",
              {<<ExpCurrent>>, <<ExpCurrentWithEnd>>, <<ExpPast>>,
               <<ExpOpenEnded>>, <<ExpBackwards>>,
               <<[ExpPast EXCEPT !.achievements = Reverse(@)]>>})
    \cup With(Plain, "education", {<<EduFull>>, <<EduNoField>>})
    \cup With(Plain, "skills",
              {[technical |-> <<"React">>], [soft |-> <<"Teamwork">>],
               [languages |-> <<"English">>], EmptyObj})
    \cup With(Plain, "projects", {<<ProjTracker>>, <<ProjParser>>})
    \cup With(Plain, "certifications", {<<CertCloud>>, <<CertNoIssuer>>})

RenderUpdateBodies ==
    With(EmptyObj, "experience", {<<ExpPast, ExpCurrentWithEnd>>})

\* rendering does not depend on who owns the resume
RenderUsers == {"u1"}

RenderInit == InitIn({e \in Envs : e.nodeEnv = "production" /\ e.mongoose = 8})

RenderCreateReq ==
    \E u \in RenderUsers, body \in RenderCreateBodies : Create(u, body, MaxResumes)
RenderUpdateReq ==
    \E u \in RenderUsers, id \in IdInputs, body \in RenderUpdateBodies :
        Update(u, id, body)
RenderPdfReq == \E u \in RenderUsers, id \in IdInputs : Pdf(u, id)
\* a call on doc may throw, the first and the last included
RenderPdfThrows ==
    \E u \in RenderUsers, id \in 1..Len(db) :
        \E k \in {1, 4, Len(PDFCalls(db[id], env))} : PdfThrows(u, id, k)

RenderNext ==
    \/ RenderCreateReq
    \/ RenderUpdateReq
    \/ RenderPdfReq
    \/ RenderPdfThrows

RenderSpec == RenderInit /\ [][RenderNext]_vars

(***************************************************************************)
(* ConcSpec: generate requests of two users whose provider calls are in    *)
(* flight together and are answered in either order.  The provider's       *)
(* answer depends on the prompt it was sent.                               *)
(***************************************************************************)
ConcInFlight == 2   \* provider calls in flight together
ConcResumes == 2    \* resumes stored

\* what each user asks for
ConcBodies(u) ==
    IF u = "u1"
    THEN {[prompt |-> "Frontend engineer, 3 years", template |-> "classic"]}
    ELSE {[prompt |-> "Nurse, 10 years"],
          [prompt |-> "Nurse, 10 years", template |-> "creative"]}

\* what the provider may answer to a prompt
ConcAnswers(prompt) ==
    IF prompt = "Frontend engineer, 3 years"
    THEN TextsOf({Plain, Spread(Plain, [experience |-> <<ExpCurrent>>])})
    ELSE TextsOf({[personalInfo |-> [fullName |-> "Ravi Rao", email |-> "ravi@example.com"]],
                  [personalInfo |-> [email |-> "ravi@example.com"]]})

ConcInit == InitIn({e \in Envs : e.tz = 0 /\ e.locale = "en-US" /\ e.mongoose = 8})

ConcGenerateReq ==
    \E u \in Users :
        \E body \in ConcBodies(u) : GenerateRequestUpTo(u, body, ConcInFlight)
ConcGenerateResp ==
    \E call \in pending :
        \E content \in ConcAnswers(call.prompt) :
            GenerateResponse(call, content, ConcResumes)
ConcGenerateErr == \E call \in pending : GenerateProviderError(call)

ConcNext ==
    \/ ConcGenerateReq
    \/ ConcGenerateResp
    \/ ConcGenerateErr

ConcSpec == ConcInit /\ [][ConcNext]_vars

(***************************************************************************)
(* Properties.                                                             *)
(***************************************************************************)
\* the prompt of a generate body is missing or the empty string
PromptEmpty(body) == ~Has(body, "prompt") \/ body.prompt = ""

\* C1: a generate request whose prompt is empty or missing is answered at
\* once with 400: no provider call is issued and no resume is stored.
C1_EmptyPromptRejected ==
    [][\A u \in Users, body \in GenGenerateBodies :
          (PromptEmpty(body) /\ GenerateRequest(u, body)) =>
              /\ resp'.op = "generate"
              /\ resp'.status = 400
              /\ pending' = pending
              /\ db' = db]_vars

C1_Witness ==
    /\ resp.op = "generate"
    /\ resp.status = 400
    /\ resp.req.body = [prompt |-> ""]
    /\ pending = {}

\* C2: when the provider's text is not valid JSON the generate request ends
\* with the parse failure response and the stored resumes are unchanged.
C2_MalformedResponse ==
    [][\A call \in pending, content \in TextsOf(ProviderValues) :
          (content.wrap # "none" /\ GenerateResponse(call, content, MaxResumes)) =>
              /\ resp'.op = "generate"
              /\ resp'.status = 500
              /\ resp'.message = "Failed to parse AI response"
              /\ db' = db]_vars

C2_Witness ==
    /\ resp.op = "generate"
    /\ resp.message = "Failed to parse AI response"
    /\ resp.req.content.wrap = "fence"

\* the experience entries of a candidate that break the date rule: not
\* current, and the endDate missing or before the startDate
DateRuleBroken(exp) ==
    /\ ~(Has(exp, "current") /\ exp.current)
    /\ Has(exp, "startDate") /\ exp.startDate.iso
    /\ \/ ~Has(exp, "endDate")
       \/ exp.endDate.iso /\ DateBefore(exp.endDate, exp.startDate)

DateRulePaths(data) ==
    IF Has(data, "experience")
    THEN {"experience." \o NumStr(i - 1) \o ".endDate" :
             i \in {j \in 1..Len(data.experience) : DateRuleBroken(data.experience[j])}}
    ELSE {}

\* every field of a candidate that breaks a Resume invariant
Offending(data) == ValidationErrors(data) \cup DateRulePaths(data)

\* the candidate a generate response answered: the provider's object under
\* the request's owner and template
AnsweredCandidate ==
    Spread(resp.req.content.value, [userId |-> resp.user, template |-> resp.req.template])

\* C3: a generate request whose provider answer is valid JSON that breaks
\* Resume invariants stores nothing and its response names every offending
\* field.
C3_SchemaViolationSurfaced ==
    (/\ resp.op = "generate"
     /\ Has(resp.req, "content")
     /\ resp.req.content.wrap = "none"
     /\ Offending(AnsweredCandidate) # {})
        => /\ resp.status # 201
           /\ resp.fields = Offending(AnsweredCandidate)

\* C7: no stored resume holds an experience entry that is not current and
\* whose endDate is missing or before its startDate.
C7_DateRuleEnforced ==
    \A id \in 1..Len(db) : DateRulePaths(db[id]) = {}

\* C9: the resume a successful generate request stores is marked
\* aiGenerated, keeps the request's prompt and template and belongs to the
\* requester, whatever keys the provider's object holds.
C9_GeneratedProvenance ==
    [][\A call \in pending, content \in TextsOf(ProviderValues) :
          (GenerateResponse(call, content, MaxResumes) /\ resp'.status = 201) =>
              /\ Len(db') = Len(db) + 1
              /\ db'[Len(db')].aiGenerated
              /\ db'[Len(db')].aiPrompt = call.prompt
              /\ db'[Len(db')].template = call.template
              /\ db'[Len(db')].userId = call.user
              /\ resp'.data = <<db'[Len(db')]>>]_vars

C9_Witness ==
    /\ resp.op = "generate"
    /\ resp.status = 201
    /\ Has(resp.req.content.value, "aiPrompt")
    /\ resp.req.content.value.userId # resp.user
    /\ db[resp.id].aiPrompt = resp.req.prompt

\* a get, update, delete or PDF request of user u on resume id
RequestOn(u, id) ==
    \/ Get(u, id)
    \/ Pdf(u, id)
    \/ Delete(u, id)
    \/ \E body \in ApiUpdateBodies : Update(u, id, body)

ListsOnlyOwn ==
    \A u \in Users :
        List(u) => \A i \in 1..Len(resp'.data) : resp'.data[i].userId = u

\* C4 as stated: every request of a user on another user's resume is
\* answered 404 'Resume not found' and changes nothing, and a list holds
\* only the requester's resumes.
C4_OthersAlwaysNotFound ==
    [][/\ \A u \in Users, id \in 1..Len(db) :
            (db[id].userId # u /\ RequestOn(u, id)) =>
                /\ resp'.status = 404
                /\ resp'.message = "Resume not found"
                /\ db' = db
       /\ ListsOnlyOwn]_vars

\* C4, amended: a request of a user on another user's resume never
\* succeeds and changes nothing; it is answered 404 'Resume not found', or,
\* for an update whose body fails validation, with the 400 validation
\* error; and a list holds only the requester's resumes.
C4_UserIsolation ==
    [][/\ \A u \in Users, id \in 1..Len(db) :
            (db[id].userId # u /\ RequestOn(u, id)) =>
                /\ db' = db
                /\ \/ resp'.status = 404 /\ resp'.message = "Resume not found"
                   \/ /\ resp'.op = "update"
                      /\ resp'.status = 400
                      /\ UpdateErrors(resp'.req.body) # {}
       /\ ListsOnlyOwn]_vars

C4_Witness ==
    /\ resp.op \in {"get", "update", "delete", "pdf"}
    /\ resp.status = 404
    /\ resp.id \in 1..Len(db)
    /\ db[resp.id].userId # resp.user
    /\ db[resp.id].isActive

\* the template a body carries is none of the four known ones
UnknownTemplate(body) == Has(body, "template") /\ body.template \notin Templates
TemplateOrDefault(body) == IF Has(body, "template") THEN body.template ELSE "modern"

\* C8: every stored resume has one of the four templates; a create,
\* generate or update request with any other template is rejected and
\* stores nothing; a request without a template stores template modern.
C8_TemplateKnown ==
    [][/\ \A id \in 1..Len(db') :
            db'[id].template \in {"modern", "classic", "creative", "minimal"}
       /\ \A u \in Users, body \in ApiCreateBodies :
            Create(u, body, MaxResumes) =>
                IF UnknownTemplate(body)
                THEN resp'.status = 400 /\ db' = db
                ELSE resp'.status = 201 =>
                        db'[resp'.id].template = TemplateOrDefault(body)
       /\ \A u \in Users, id \in IdInputs, body \in ApiUpdateBodies :
            (UnknownTemplate(body) /\ Update(u, id, body)) =>
                resp'.status = 400 /\ db' = db
       /\ \A u \in Users, body \in ApiGenerateBodies :
            (~PromptEmpty(body) /\ GenerateRequest(u, body)) =>
                \A call \in pending' \ pending :
                    call.template = TemplateOrDefault(body)
       /\ \A call \in pending, content \in ApiProviderTexts :
            GenerateResponse(call, content, MaxResumes) =>
                IF call.template \notin Templates
                THEN resp'.status \notin {200, 201} /\ db' = db
                ELSE resp'.status = 201 => db'[resp'.id].template = call.template
      ]_vars

\* the PDF response of a rendered resume, and that resume
Rendered == resp.op = "pdf" /\ resp.status = 200
RenderedResume == db[resp.id]

\* the texts of the lines written by the doc.text call `tag`
TextsTagged(lines, tag) ==
    LET sel == SelectSeq(lines, LAMBDA l : l.tag = tag)
    IN  [i \in 1..Len(sel) |-> sel[i].text]

\* the section headings a resume is to show: those of its non-empty
\* sections, in the fixed order
ExpectedHeadings(r) ==
    (IF Truthy(r.personalInfo, "summary") THEN <<"Professional Summary">> ELSE <<>>)
    \o (IF Len(r.experience) > 0 THEN <<"Professional Experience">> ELSE <<>>)
    \o (IF Len(r.education) > 0 THEN <<"Education">> ELSE <<>>)
    \o (IF \E k \in SkillsKeys : Len(r.skills[k]) > 0 THEN <<"Skills">> ELSE <<>>)
    \o (IF Len(r.projects) > 0 THEN <<"Projects">> ELSE <<>>)
    \o (IF Len(r.certifications) > 0 THEN <<"Certifications">> ELSE <<>>)

\* C5: the headings of a rendered resume are exactly those of its non-empty
\* sections, in the fixed order, after the name header.
C5_OnlyNonEmptySections ==
    Rendered =>
        /\ resp.lines[1].tag = "name"
        /\ TextsTagged(resp.lines, "heading") = ExpectedHeadings(RenderedResume)

Years == 2000..2030

\* C6: the date line of every experience entry with current = true is
\* "<year> - Present", with or without an endDate.
C6_CurrentShowsPresent ==
    Rendered =>
        LET dates == TextsTagged(resp.lines, "expDates")
            exps == RenderedResume.experience
        IN  /\ Len(dates) = Len(exps)
            /\ \A i \in 1..Len(exps) :
                  exps[i].current =>
                      dates[i] \in {NumStr(y) \o " - Present" : y \in Years}

C6_Witness ==
    /\ Rendered
    /\ \E i \in 1..Len(RenderedResume.experience) :
          /\ RenderedResume.experience[i].current
          /\ Has(RenderedResume.experience[i], "endDate")

\* the entries of a stored array are those supplied, in the order supplied
SameOrder(stored, supplied) ==
    /\ Len(stored) = Len(supplied)
    /\ \A i \in 1..Len(supplied) : Pick(stored[i], DOMAIN supplied[i]) = supplied[i]

ArraySections == {"experience", "education", "projects", "certifications"}

\* C10: a create or update stores each array-valued section in the order
\* supplied, and a rendered resume shows the entries of each section, and
\* the achievements of each experience entry, in the stored order.
C10_OrderPreserved ==
    /\ (resp.op \in {"create", "update"} /\ resp.status \in {200, 201}) =>
          \A k \in ArraySections \cap DOMAIN resp.req.body :
              SameOrder(db[resp.id][k], resp.req.body[k])
    /\ Rendered =>
          LET r == RenderedResume
          IN  /\ TextsTagged(resp.lines, "expTitle") =
                    [i \in 1..Len(r.experience) |->
                        r.experience[i].position \o " at " \o r.experience[i].company]
              /\ TextsTagged(resp.lines, "achievement") =
                    Flatten([i \in 1..Len(r.experience) |->
                                [j \in 1..Len(r.experience[i].achievements) |->
                                    "* " \o r.experience[i].achievements[j]]])
              /\ TextsTagged(resp.lines, "eduInstitution") =
                    [i \in 1..Len(r.education) |-> r.education[i].institution]
              /\ TextsTagged(resp.lines, "projectName") =
                    [i \in 1..Len(r.projects) |-> r.projects[i].name]
              /\ TextsTagged(resp.lines, "certName") =
                    [i \in 1..Len(r.certifications) |-> r.certifications[i].name]

C10_Witness ==
    /\ Rendered
    /\ Len(RenderedResume.experience) = 2
    /\ RenderedResume.experience[1].company = "Globex"
    /\ Len(RenderedResume.certifications) = 2
    /\ RenderedResume.certifications[1].name = "Kubernetes Administrator"

\* a stored resume satisfies the data-model invariants: the required fields
\* are there and non-empty and the template is a known one
StoredValid(r) ==
    /\ \A k \in PersonalInfoRequired : RequiredOk(r.personalInfo, k, FALSE)
    /\ \A s \in {ExperienceSchema, EducationSchema, ProjectSchema, CertificationSchema} :
          \A i \in 1..Len(r[s.name]) :
              \A k \in s.required : RequiredOk(r[s.name][i], k, k \in s.dates)
    /\ r.template \in Templates

\* C11: after any sequence of create, generate and update requests, every
\* stored active resume satisfies the data-model invariants.
C11_StoredAlwaysValid ==
    \A id \in 1..Len(db) : db[id].isActive => StoredValid(db[id])

\* String.prototype.trim leaves nothing of s
Blank(s) == \A i \in 1..Len(s) : SubSeq(s, i, i) = " "

\* the required string fields of a resume, as (object, key) pairs
RequiredStrings(r) ==
    {<<r.personalInfo, k>> : k \in {"fullName", "email"}}
    \cup {<<r.experience[i], "position">> : i \in 1..Len(r.experience)}
    \cup {<<r.education[i], "degree">> : i \in 1..Len(r.education)}
    \cup {<<r.projects[i], "name">> : i \in 1..Len(r.projects)}
    \cup {<<r.certifications[i], "name">> : i \in 1..Len(r.certifications)}

\* C12: every required string field of a resume accepted by create or
\* generate is non-empty after trimming.
C12_RequiredNonBlank ==
    \A id \in 1..Len(db) :
        \A f \in RequiredStrings(db[id]) : Has(f[1], f[2]) /\ ~Blank(f[1][f[2]])

\* C13: the lines of a rendered resume are a function of the resume alone:
\* any environment renders the same resume to the same lines.
C13_RenderDeterministic ==
    Rendered => \A e \in Envs : GeneratePDFContent(RenderedResume, e) = resp.lines

\* the indices of the lines written by the doc.text call `tag`
LinesTagged(lines, tag) ==
    SelectSeq([i \in 1..Len(lines) |-> i], LAMBDA i : lines[i].tag = tag)

\* the end of the date line of an entry whose end is supplied
SuppliedEnd(exp) == IF exp.current THEN "Present" ELSE NumStr(exp.endDate.y)

\* C14: every experience entry is rendered as "{position} at {company}"
\* immediately followed by "{startYear} - {Present|endYear}", the years
\* being the calendar years of the dates as supplied.
C14_ExperienceLines ==
    Rendered =>
        LET exps == RenderedResume.experience
            at == LinesTagged(resp.lines, "expTitle")
        IN  /\ Len(at) = Len(exps)
            /\ \A i \in 1..Len(exps) :
                  /\ resp.lines[at[i]].text =
                        exps[i].position \o " at " \o exps[i].company
                  /\ at[i] < Len(resp.lines)
                  /\ resp.lines[at[i] + 1].tag = "expDates"
                  /\ (exps[i].current \/ Has(exps[i], "endDate")) =>
                        resp.lines[at[i] + 1].text =
                            NumStr(exps[i].startDate.y) \o " - " \o SuppliedEnd(exps[i])

\* what a generate request answered alone, with nothing else in flight,
\* stores for its call and the provider's text
AloneResume(call, content) == NewResume(GenerateData(call, JSONParse(content).value))
AloneStatus(call, content) ==
    IF ~JSONParse(content).ok THEN 500
    ELSE IF ValidationErrors(GenerateData(call, JSONParse(content).value)) # {} THEN 500
    ELSE 201

\* C15: with two generate requests of distinct users in flight, the answer
\* to each and the resume stored for it are those of the request run alone,
\* and it leaves the other request and every stored resume as they were.
C15_GenerateIsolated ==
    [][\A call \in pending : \A content \in ConcAnswers(call.prompt) :
          GenerateResponse(call, content, ConcResumes) =>
              /\ pending' = pending \ {call}
              /\ \A id \in 1..Len(db) : db'[id] = db[id]
              /\ resp'.user = call.user
              /\ resp'.status = AloneStatus(call, content)
              /\ IF resp'.status = 201
                 THEN /\ Len(db') = Len(db) + 1
                      /\ db'[Len(db')] = AloneResume(call, content)
                      /\ db'[Len(db')].userId = call.user
                      /\ db'[Len(db')].aiPrompt = call.prompt
                      /\ db'[Len(db')].template = call.template
                      /\ resp'.data = <<AloneResume(call, content)>>
                 ELSE db' = db
      ]_vars

\* one request has been answered with 201 while the other user's is in flight
C15_Witness ==
    /\ resp.op = "generate"
    /\ resp.status = 201
    /\ \E c \in pending : c.user # resp.user
    /\ db[resp.id].userId = resp.user

ReadOrUpdate(u, id) ==
    \/ Get(u, id)
    \/ Pdf(u, id)
    \/ \E body \in ApiUpdateBodies : Update(u, id, body)

ListsOnlyActive ==
    \A u \in Users :
        List(u) => \A i \in 1..Len(resp'.data) : resp'.data[i].isActive

\* C17 as stated: a deleted resume stays deleted, no list holds it, and
\* every get, update and PDF request on it is answered 404 'Resume not
\* found' and changes nothing.
C17_DeletedAlwaysNotFound ==
    [][/\ \A id \in 1..Len(db) :
            ~db[id].isActive =>
                /\ ~db'[id].isActive
                /\ \A u \in Users :
                      ReadOrUpdate(u, id) =>
                          /\ resp'.status = 404
                          /\ resp'.message = "Resume not found"
                          /\ db' = db
       /\ ListsOnlyActive]_vars

\* C17, amended: a deleted resume stays deleted, no list holds it, and no
\* get, update or PDF request on it succeeds or changes it; the request is
\* answered 404 'Resume not found', or, for an update whose body fails
\* validation, with the 400 validation error.
C17_SoftDeletePermanent ==
    [][/\ \A id \in 1..Len(db) :
            ~db[id].isActive =>
                /\ ~db'[id].isActive
                /\ \A u \in Users :
                      ReadOrUpdate(u, id) =>
                          /\ db' = db
                          /\ \/ resp'.status = 404 /\ resp'.message = "Resume not found"
                             \/ /\ resp'.op = "update"
                                /\ resp'.status = 400
                                /\ UpdateErrors(resp'.req.body) # {}
       /\ ListsOnlyActive]_vars

\* the owner's request on a resume they deleted was answered 404
C17_Witness ==
    /\ resp.op \in {"get", "update", "pdf"}
    /\ resp.status = 404
    /\ resp.id \in 1..Len(db)
    /\ db[resp.id].userId = resp.user
    /\ ~db[resp.id].isActive

\* C18: the userId of a stored resume is the user of the request that
\* created it, and no request changes it.
C18_OwnerNeverChanges ==
    [][/\ \A id \in 1..Len(db) : db'[id].userId = db[id].userId
       /\ Len(db') > Len(db) => db'[Len(db')].userId = resp'.user]_vars

\* the text t occurs in the text s
Contains(s, t) ==
    \E i \in 1..(Len(s) - Len(t) + 1) : SubSeq(s, i, i + Len(t) - 1) = t

\* what JavaScript writes for a value that is not there
Placeholders == {"undefined", "NaN", "Invalid Date"}

\* C19: no line of a rendered resume contains the text 'undefined', 'NaN'
\* or 'Invalid Date'.
C19_NoPlaceholders ==
    Rendered =>
        \A i \in 1..Len(resp.lines) :
            \A p \in Placeholders : ~Contains(resp.lines[i].text, p)

====
